---- MODULE Spec2Model ----
(***************************************************************************)
(* Model of sotodlib/preprocess/core.py: the preprocessing Pipeline, its   *)
(* run loop over a working container (aman) and two accumulators           *)
(* (proc_aman, working-shaped, and full, full-size), and the re-projection *)
(* helpers _expand / update_full_aman.                                     *)
(***************************************************************************)
EXTENDS Integers, Sequences, FiniteSets, TLC

\* ------------------------------------------------------------------ bounds
\* longest pipeline (number of modules in the list)
MaxMods == 2
\* number of distinct detector labels
NDets == 2
\* number of samples of the time-ordered data
NSamps == 2

Dets == 1..NDets

\* ------------------------------------------------------- sequence helpers
InSeq(s, x) == \E i \in 1..Len(s) : s[i] = x

IndexOf(s, x) == CHOOSE i \in 1..Len(s) : s[i] = x

SeqSet(s) == {s[i] : i \in 1..Len(s)}

\* sequences over S without repeated elements, of length at most n
InjSeqs(S, n) ==
    UNION {{s \in [1..k -> S] : \A i, j \in 1..k : i # j => s[i] # s[j]} : k \in 0..n}

Canonical(n) == [i \in 1..n |-> i]

\* ----------------------------------------------- sparse interval set (Ranges)
\* Ranges(count): the all-false interval set over count samples
RangesEmpty(count) == [count |-> count, ivs |-> <<>>]

\* Ranges.mask(): the dense boolean mask, positions 1..count
RangesMask(r) ==
    [p \in 1..r.count |->
        \E k \in 1..Len(r.ivs) : r.ivs[k][1] < p /\ p <= r.ivs[k][2]]

\* end of the run of equal mask values that starts at position p: the first
\* later position holding the other value, or Len(m) + 1
RunEnd(m, p) ==
    CHOOSE q \in (p + 1)..(Len(m) + 1) :
        /\ q = Len(m) + 1 \/ m[q] # m[p]
        /\ \A t \in (p + 1)..(q - 1) : m[t] = m[p]

\* Ranges.from_mask(m): run-length collapse of a dense mask into half-open
\* intervals <<lo, hi>> over 0-based sample indices, one run at a time
RECURSIVE FromMaskFrom(_, _, _)
FromMaskFrom(m, p, open) ==
    IF p > Len(m)
    THEN IF open >= 0 THEN << <<open, Len(m)>> >> ELSE <<>>
    ELSE IF m[p]
         THEN FromMaskFrom(m, RunEnd(m, p), IF open >= 0 THEN open ELSE p - 1)
         ELSE IF open >= 0
              THEN << <<open, p - 1>> >> \o FromMaskFrom(m, RunEnd(m, p), 0 - 1)
              ELSE FromMaskFrom(m, RunEnd(m, p), 0 - 1)

\* Ranges.from_mask as it would be if it stored one interval per true
\* sample, without merging neighbours
RangesFromMask_PerSample(m) ==
    LET Trues == SelectSeq([p \in 1..Len(m) |-> p], LAMBDA p : m[p])
    IN  [count |-> Len(m), ivs |-> [k \in 1..Len(Trues) |-> <<Trues[k] - 1, Trues[k]>>]]

RangesFromMask(m) == [count |-> Len(m), ivs |-> FromMaskFrom(m, 1, 0 - 1)]

\* ------------------------------------------------------------- containers
\* A sub-container saved by a module: a detector axis, optionally a sample
\* axis, one dense field `data` along the detector axis and, once expanded
\* with wrap_valid, the `valid` matrix (one interval set per detector).
NoSamps == [has |-> FALSE, offset |-> 0, count |-> 0]

SampsAxis(offset, count) == [has |-> TRUE, offset |-> offset, count |-> count]

MkField(dets, samps, data, hasValid, valid) ==
    [dets |-> dets, samps |-> samps, data |-> data,
     hasValid |-> hasValid, valid |-> valid]

\* AxisManager(dets, samps) with no fields
EmptyAman(dets, samps) ==
    [dets |-> dets, samps |-> samps, fields |-> [n \in {} |-> 0]]

\* LabelAxis.intersection(friend, return_slices=True): positions in self and
\* in friend of the common labels, in self's label order
DetsIntersection(selfDets, friendDets) ==
    LET common == SelectSeq(selfDets, LAMBDA d : InSeq(friendDets, d))
    IN  [fs |-> [k \in 1..Len(common) |-> IndexOf(selfDets, common[k])],
         ns |-> [k \in 1..Len(common) |-> IndexOf(friendDets, common[k])]]

\* OffsetAxis.intersection(friend, return_slices=True): the overlapping
\* sample range as the set of 1-based positions in self
SampsIntersection(selfSamps, friendSamps) ==
    LET lo == IF selfSamps.offset > friendSamps.offset
              THEN selfSamps.offset ELSE friendSamps.offset
        hiS == selfSamps.offset + selfSamps.count
        hiF == friendSamps.offset + friendSamps.count
        hi == IF hiS < hiF THEN hiS ELSE hiF
    IN  {p \in 1..selfSamps.count :
            lo <= selfSamps.offset + p - 1 /\ selfSamps.offset + p - 1 < hi}

\* restriction of one sub-container as it would be if it kept the first
\* rows of every field instead of the rows of the labels
RestrictField_Positional(f, labels) ==
    MkField(labels, f.samps,
            [k \in 1..Len(labels) |-> f.data[k]],
            f.hasValid,
            IF f.hasValid THEN [k \in 1..Len(labels) |-> f.valid[k]] ELSE <<>>)

\* restriction of one sub-container to a list of detector labels
RestrictField(f, labels) ==
    MkField(labels, f.samps,
            [k \in 1..Len(labels) |-> f.data[IndexOf(f.dets, labels[k])]],
            f.hasValid,
            IF f.hasValid
            THEN [k \in 1..Len(labels) |-> f.valid[IndexOf(f.dets, labels[k])]]
            ELSE <<>>)

\* AxisManager.restrict('dets', labels): the axis keeps exactly labels, in the
\* order given, and every field along the axis is re-sliced, recursively
Restrict(c, labels) ==
    [dets |-> labels, samps |-> c.samps,
     fields |-> [n \in DOMAIN c.fields |-> RestrictField(c.fields[n], labels)]]

\* AxisManager.restrict('dets', labels) with its error: labels that are not
\* all on the axis raise and leave the container as it is
RestrictChecked(c, labels) ==
    IF SeqSet(labels) \subseteq SeqSet(c.dets)
    THEN [ok |-> TRUE, val |-> Restrict(c, labels)]
    ELSE [ok |-> FALSE, val |-> c]

\* ------------------------------------------------------------------ _expand
\* _expand as it would be if new's values were copied by position, not by
\* the positions of the common labels
Expand_Positional(new, full, wrap_valid) ==
    LET di == DetsIntersection(full.dets, new.dets)
        data == [i \in 1..Len(full.dets) |->
                    IF i <= Len(new.data) THEN new.data[i] ELSE 0]
        x == RangesEmpty(full.samps.count)
        v == RangesFromMask([p \in 1..full.samps.count |-> TRUE])
        valid == [i \in 1..Len(full.dets) |->
                    IF \E k \in 1..Len(di.fs) : di.fs[k] = i THEN v ELSE x]
    IN  MkField(full.dets, full.samps, data, wrap_valid,
                IF wrap_valid THEN valid ELSE <<>>)

Expand(new, full, wrap_valid) ==
    LET di == DetsIntersection(full.dets, new.dets)
        fs_samps == IF new.samps.has
                    THEN SampsIntersection(full.samps, new.samps)
                    ELSE 1..full.samps.count
        zeros == [i \in 1..Len(full.dets) |-> 0]
        data == [i \in 1..Len(full.dets) |->
                    IF \E k \in 1..Len(di.fs) : di.fs[k] = i
                    THEN new.data[di.ns[CHOOSE k \in 1..Len(di.fs) : di.fs[k] = i]]
                    ELSE zeros[i]]
        x == RangesEmpty(full.samps.count)
        m == [p \in 1..full.samps.count |-> IF p \in fs_samps THEN TRUE ELSE RangesMask(x)[p]]
        v == RangesFromMask(m)
        valid == [i \in 1..Len(full.dets) |->
                    IF \E k \in 1..Len(di.fs) : di.fs[k] = i THEN v ELSE x]
    IN  MkField(full.dets, full.samps, data, wrap_valid,
                IF wrap_valid THEN valid ELSE <<>>)

\* ---------------------------------------------------------- update_full_aman
\* update_full_aman as it would be if it projected every field of proc_aman,
\* also those full already has
UpdateFullAman_Overwrite(proc, full, wrap_valid) ==
    [full EXCEPT !.fields =
        [n \in (DOMAIN full.fields) \cup (DOMAIN proc.fields) |->
            IF n \in DOMAIN proc.fields
            THEN Expand(proc.fields[n], full, wrap_valid)
            ELSE full.fields[n]]]

\* update_full_aman as it would be with the membership test inverted
UpdateFullAman_Inverted(proc, full, wrap_valid) ==
    [full EXCEPT !.fields =
        [n \in DOMAIN full.fields |->
            IF n \in DOMAIN proc.fields
            THEN Expand(proc.fields[n], full, wrap_valid)
            ELSE full.fields[n]]]

UpdateFullAman(proc, full, wrap_valid) ==
    [full EXCEPT !.fields =
        [n \in (DOMAIN full.fields) \cup (DOMAIN proc.fields) |->
            IF n \in DOMAIN full.fields
            THEN full.fields[n]
            ELSE Expand(proc.fields[n], full, wrap_valid)]]

\* ================================================= _expand on any container
\* A container as _expand sees it: an optional detector axis, an optional
\* sample axis and, each held as a sequence of length 0 or 1, a dense field
\* over (dets, samps), a dense field over (dets), a Ranges field over
\* (samps), a RangesMatrix field over (dets, samps), a nested container and
\* the valid matrix.
MkAxes(hasDets, dets, samps) ==
    [hasDets |-> hasDets, dets |-> dets, samps |-> samps,
     dense |-> <<>>, vec |-> <<>>, rng |-> <<>>, rmat |-> <<>>,
     sub |-> <<>>, valid |-> <<>>]

\* OffsetAxis.intersection(friend, return_slices=True): the overlapping
\* sample range as the positions in self and the matching positions in friend
SampsSlices(selfSamps, friendSamps) ==
    LET lo == IF selfSamps.offset > friendSamps.offset
              THEN selfSamps.offset ELSE friendSamps.offset
        hiS == selfSamps.offset + selfSamps.count
        hiF == friendSamps.offset + friendSamps.count
        hi == IF hiS < hiF THEN hiS ELSE hiF
        n == IF hi > lo THEN hi - lo ELSE 0
    IN  [fs |-> [k \in 1..n |-> lo - selfSamps.offset + k],
         ns |-> [k \in 1..n |-> lo - friendSamps.offset + k]]

\* slice(None) over an axis of count positions
SliceAll(count) == [k \in 1..count |-> k]

\* _zeros_cls(item) applied to a shape, for a dense array
ZerosDense(nd, ns) == [i \in 1..nd |-> [p \in 1..ns |-> 0]]

ZerosVec(nd) == [i \in 1..nd |-> 0]

\* _zeros_cls(item) for a Ranges: Ranges(shape[0])
ZerosRanges(count) == RangesEmpty(count)

\* _zeros_cls(item) for a RangesMatrix: RangesMatrix.zeros(shape)
ZerosRangesMatrix(nd, count) == [i \in 1..nd |-> RangesEmpty(count)]

\* _ranges_match as it would be if it copied n's mask from the start of o,
\* whatever the intersection
RangesMatch_WholeMask(o, n, oidx, nidx) ==
    LET omsk == RangesMask(o)
        nmsk == RangesMask(n)
    IN  RangesFromMask([p \in 1..Len(omsk) |->
            IF p <= Len(nmsk) THEN nmsk[p] ELSE omsk[p]])

\* _ranges_match(o, n, oidx, nidx): omsk[oidx[0]] = nmsk[nidx[0]]
RangesMatch(o, n, oidx, nidx) ==
    LET omsk == RangesMask(o)
        nmsk == RangesMask(n)
    IN  RangesFromMask([p \in 1..Len(omsk) |->
            IF InSeq(oidx, p) THEN nmsk[nidx[IndexOf(oidx, p)]] ELSE omsk[p]])

\* _ranges_matrix_match as it would be if it took n's row at o's position
RangesMatrixMatch_SameRow(o, n, odets, ndets, oidx, nidx) ==
    [i \in 1..Len(o) |->
        IF InSeq(odets, i) /\ i <= Len(n)
        THEN RangesMatch(o[i], n[i], oidx, nidx)
        ELSE o[i]]

\* _ranges_matrix_match(o, n, oidx, nidx), oidx = (odets, oidx) and
\* nidx = (ndets, nidx): row by row over the common detectors
RangesMatrixMatch(o, n, odets, ndets, oidx, nidx) ==
    [i \in 1..Len(o) |->
        IF InSeq(odets, i)
        THEN RangesMatch(o[i], n[ndets[IndexOf(odets, i)]], oidx, nidx)
        ELSE o[i]]

\* the valid matrix as it would be if every detector of full got the row v
ValidOf_AllDets(full, fs_dets, fs_samps) ==
    LET x == RangesEmpty(full.samps.count)
        m == [p \in 1..full.samps.count |->
                IF InSeq(fs_samps, p) THEN TRUE ELSE RangesMask(x)[p]]
        v == RangesFromMask(m)
    IN  [i \in 1..Len(full.dets) |-> v]

\* the valid matrix of _expand: v on the detectors of fs_dets, x elsewhere
ValidOf(full, fs_dets, fs_samps) ==
    LET x == RangesEmpty(full.samps.count)
        m == [p \in 1..full.samps.count |->
                IF InSeq(fs_samps, p) THEN TRUE ELSE RangesMask(x)[p]]
        v == RangesFromMask(m)
    IN  [i \in 1..Len(full.dets) |-> IF InSeq(fs_dets, i) THEN v ELSE x]

\* out[k][oidx] = v[nidx] on a zero array, for a field over (dets, samps)
DenseMatch(v, nd, ns, odets, ndets, oidx, nidx) ==
    [i \in 1..nd |-> [p \in 1..ns |->
        IF InSeq(odets, i) /\ InSeq(oidx, p)
        THEN v[ndets[IndexOf(odets, i)]][nidx[IndexOf(oidx, p)]]
        ELSE ZerosDense(nd, ns)[i][p]]]

\* out[k][oidx] = v[nidx] on a zero array, for a field over (dets)
VecMatch(v, nd, odets, ndets) ==
    [i \in 1..nd |->
        IF InSeq(odets, i) THEN v[ndets[IndexOf(odets, i)]] ELSE ZerosVec(nd)[i]]

\* _expand(new, full, wrap_valid) on any container: ok is false when the
\* call raises (valid asked for a container without a detector axis, which
\* leaves fs_dets unbound); a nested container is expanded by
\* _expand(v, full), with wrap_valid at its default
RECURSIVE ExpandNested(_, _, _)
ExpandNested(new, full, wrap_valid) ==
    LET di == IF new.hasDets THEN DetsIntersection(full.dets, new.dets)
              ELSE [fs |-> <<>>, ns |-> <<>>]
        si == IF new.samps.has THEN SampsSlices(full.samps, new.samps)
              ELSE [fs |-> SliceAll(full.samps.count), ns |-> <<>>]
        nd == Len(full.dets)
        ns == full.samps.count
        inner == IF new.sub = <<>> THEN [ok |-> TRUE, val |-> new]
                 ELSE ExpandNested(new.sub[1], full, TRUE)
        out == [hasDets |-> TRUE, dets |-> full.dets, samps |-> full.samps,
                dense |-> IF new.dense = <<>> THEN <<>>
                          ELSE << DenseMatch(new.dense[1], nd, ns, di.fs, di.ns, si.fs, si.ns) >>,
                vec |-> IF new.vec = <<>> THEN <<>>
                        ELSE << VecMatch(new.vec[1], nd, di.fs, di.ns) >>,
                rng |-> IF new.rng = <<>> THEN <<>>
                        ELSE << RangesMatch(ZerosRanges(ns), new.rng[1], si.fs, si.ns) >>,
                rmat |-> IF new.rmat = <<>> THEN <<>>
                         ELSE << RangesMatrixMatch(ZerosRangesMatrix(nd, ns), new.rmat[1],
                                                   di.fs, di.ns, si.fs, si.ns) >>,
                sub |-> IF new.sub = <<>> THEN <<>> ELSE << inner.val >>,
                valid |-> IF wrap_valid /\ new.hasDets
                          THEN << ValidOf(full, di.fs, si.fs) >> ELSE <<>>]
    IN  IF ~inner.ok \/ (wrap_valid /\ ~new.hasDets)
        THEN [ok |-> FALSE, val |-> MkAxes(FALSE, <<>>, NoSamps)]
        ELSE [ok |-> TRUE, val |-> out]

\* ------------------------------------------------------------------ modules
\* names of the modules of the list, by position (the registry name of the
\* class of each module); a class may carry any name, also 'end'
ModNames == <<"detrend", "end", "noise", "glitches">>

\* name of the field a module's calc_and_save wraps into proc_aman
FldNames == <<"detrend_out", "end_out", "noise_out", "glitches_out">>

\* detector sets the data of a selecting module marks as bad
NoisySets == {{1}, Dets}

\* A module: cls "base" is _Preprocess itself (no operation overridden), cls
\* "sub" a subclass overriding process, calc_and_save and select; keys are the
\* configuration keys present (step_cfgs.get(...) is not None)
ModuleChoices ==
    {[cls |-> "sub", keys |-> {"process"} \cup k, noisy |-> n] :
        k \in {{"select"}, {"calc", "select"}}, n \in NoisySets}
    \cup {[cls |-> "sub", keys |-> {"process"} \cup k, noisy |-> {}] :
        k \in {{}, {"calc"}}}
    \cup {[cls |-> "base", keys |-> {k}, noisy |-> {}] :
        k \in {"process", "calc", "select"}}

Pipelines == UNION {[1..k -> ModuleChoices] : k \in 0..MaxMods}

\* _Preprocess.process / calc_and_save / select of the base class: return when
\* the key's configuration is None, raise NotImplementedError otherwise
\* (m.keys: the keys given with a configuration)
BaseRaises(m, key) == m.cls = "base" /\ key \in m.keys

\* value a module's calc_and_save derives for detector d
CalcVal(m, d) == IF d \in m.noisy THEN 1 ELSE 2

\* the sub-container a module's save wraps into proc_aman, over dets
CalcField(m, dets) ==
    MkField(dets, NoSamps, [k \in 1..Len(dets) |-> CalcVal(m, dets[k])], FALSE, <<>>)

\* calc_and_save(aman, proc_aman) of a module at position j
CalcAndSaveOp(m, j, a, proc) ==
    IF m.cls = "sub" /\ "calc" \in m.keys
    THEN [proc EXCEPT !.fields =
            [n \in (DOMAIN proc.fields) \cup {FldNames[j]} |->
                IF n = FldNames[j] THEN CalcField(m, a.dets) ELSE proc.fields[n]]]
    ELSE proc

\* process(aman, proc_aman): changes the time-ordered data in place
ProcessOp(m, a) ==
    IF m.cls = "sub" /\ "process" \in m.keys
    THEN [a EXCEPT !.tod = a.tod + 1]
    ELSE a

\* whether a module's select keeps detector d: by the module's own product in
\* proc_aman when it is there, else by the detector's label
SelectKeeps(m, j, proc, d) ==
    IF FldNames[j] \in DOMAIN proc.fields
    THEN LET f == proc.fields[FldNames[j]]
         IN  InSeq(f.dets, d) /\ f.data[IndexOf(f.dets, d)] = 2
    ELSE d \notin m.noisy

\* select(aman, proc_aman): restricts aman's detector axis in place
SelectOp(m, j, a, proc) ==
    IF m.cls = "sub" /\ "select" \in m.keys
    THEN [a EXCEPT !.dets = SelectSeq(a.dets, LAMBDA d : SelectKeeps(m, j, proc, d))]
    ELSE a

\* ------------------------------------------------------------------- state
VARIABLES
    pipe,        \* the Pipeline: the list of modules
    wrap_valid,  \* Pipeline.wrap_valid
    sel,         \* run's select argument
    given,       \* whether run is called with a proc_aman
    aman,        \* the working container (TOD)
    aman0,       \* the TOD as loaded, before any run
    prior,       \* the proc_aman run was called with, as it was at the call
    proc_aman,   \* the working-shaped accumulator
    full,        \* the full-size accumulator
    run_calc,
    success,
    i,           \* position of the loop in the list
    pc,          \* position of the run in its code
    trace,       \* operations invoked by the current run, in order
    ret,         \* what run returned
    runNo,       \* 1: first call of run, 2: the call resuming from its result
    first,       \* detectors left in aman, and status, when the first run returned
    reg,         \* Pipeline.PIPELINE and the register calls made so far
    pl,          \* a Pipeline object under construction and list editing
    bc,          \* a _Preprocess instance and the last call of one of its operations
    xp,          \* a call of _expand: its arguments and its result
    mk,          \* a dense mask, the Ranges built from it and its mask
    rs,          \* a container and the restrictions applied to it
    nm           \* a call of get_nominal: its configuration and its outcome

\* the variables of a run of a pipeline
runvars == <<pipe, wrap_valid, sel, given, aman, aman0, prior, proc_aman, full, run_calc,
             success, i, pc, trace, ret, runNo, first>>

\* the variables of the parts checked on their own
libvars == <<reg, pl, bc, xp, mk, rs, nm>>

vars == <<runvars, libvars>>

\* no run is going on
RunIdle ==
    /\ pipe = <<>> /\ wrap_valid = TRUE /\ sel = TRUE /\ given = FALSE
    /\ aman = "idle" /\ aman0 = "idle" /\ prior = "idle" /\ proc_aman = "idle"
    /\ full = "idle" /\ run_calc = FALSE /\ success = "" /\ i = 0 /\ pc = "idle"
    /\ trace = <<>> /\ ret = "idle" /\ runNo = 0 /\ first = "idle"

RegIdle == reg = "idle"

PlIdle == pl = "idle"

BcIdle == bc = "idle"

XpIdle == xp = "idle"

MkIdle == mk = "idle"

RsIdle == rs = "idle"

NmIdle == nm = "idle"

TodSamps == SampsAxis(0, NSamps)

MkAman(dets) == [dets |-> dets, samps |-> TodSamps, tod |-> 0]

Nothing == EmptyAman(<<>>, NoSamps)

\* an accumulator kept from an earlier run of the same pipeline on
\* detectors pd: each calc product, full-size
PriorAman(p, pd, wv) ==
    LET shell == EmptyAman(pd, TodSamps)
        J == {j \in 1..Len(p) : p[j].cls = "sub" /\ "calc" \in p[j].keys}
    IN  [shell EXCEPT !.fields =
            [n \in {FldNames[j] : j \in J} |->
                LET j == CHOOSE j \in J : FldNames[j] = n
                IN  Expand(CalcField(p[j], pd), shell, wv)]]

\* the calls of run that are tried: a fresh run on a TOD, by a pipeline
\* built with either value of wrap_valid, or a run given an accumulator (made
\* with the default wrap_valid) whose detectors may differ from the TOD's
Inputs ==
    {[given |-> FALSE, dets |-> Canonical(n), pd |-> <<>>, wv |-> w] :
        n \in 0..NDets, w \in BOOLEAN}
    \cup {[given |-> TRUE, dets |-> d, pd |-> pd, wv |-> TRUE] :
            d \in {Canonical(NDets), <<NDets>>}, pd \in InjSeqs(Dets, NDets)}

Init ==
    /\ pipe \in Pipelines
    /\ sel \in BOOLEAN
    /\ \E in \in Inputs :
        /\ wrap_valid = in.wv
        /\ given = in.given
        /\ aman = MkAman(in.dets)
        /\ proc_aman = IF in.given THEN PriorAman(pipe, in.pd, wrap_valid) ELSE Nothing
    /\ aman0 = aman
    /\ prior = proc_aman
    /\ full = Nothing
    /\ run_calc = FALSE
    /\ success = ""
    /\ i = 0
    /\ pc = "call"
    /\ trace = <<>>
    /\ ret = [returned |-> FALSE, full |-> Nothing, success |-> ""]
    /\ runNo = 1
    /\ first = [dets |-> <<>>, success |-> ""]
    /\ RegIdle /\ PlIdle /\ BcIdle /\ XpIdle /\ MkIdle /\ RsIdle /\ NmIdle

LoopHead(j) == IF j <= Len(pipe) THEN "process" ELSE "return"

\* the loop as it would be if it went on to select whatever the flag
AfterCalc_Always == "select"

AfterCalc == IF sel THEN "select" ELSE "check"

\* one more event of the run: the operation, the module's position, and the
\* number of detectors aman has when the event happens
Invoke(op) == trace' = Append(trace, [op |-> op, mod |-> i, ndets |-> Len(aman.dets)])

\* run, no proc_aman given
RunFresh ==
    /\ pc = "call" /\ ~given
    /\ proc_aman' = EmptyAman(aman.dets, aman.samps)
    /\ full' = EmptyAman(aman.dets, aman.samps)
    /\ run_calc' = TRUE
    /\ success' = "end"
    /\ i' = 1
    /\ pc' = LoopHead(1)
    /\ UNCHANGED <<libvars, pipe, wrap_valid, sel, given, aman, aman0, prior, trace, ret, runNo, first>>

\* RunResume as it would be if a resumed run still computed: run_calc set
RunResume_RunCalc ==
    /\ pc = "call" /\ given
    /\ LET det_list == SelectSeq(proc_aman.dets, LAMBDA d : InSeq(aman.dets, d))
           differ == Len(aman.dets) # Len(proc_aman.dets) \/ aman.dets # proc_aman.dets
           a == IF differ THEN [aman EXCEPT !.dets = det_list] ELSE aman
           p == IF differ THEN Restrict(proc_aman, det_list) ELSE proc_aman
       IN  /\ aman' = a
           /\ proc_aman' = p
           /\ full' = p
    /\ run_calc' = TRUE
    /\ success' = "end"
    /\ i' = 1
    /\ pc' = LoopHead(1)
    /\ UNCHANGED <<libvars, pipe, wrap_valid, sel, given, aman0, prior, trace, ret, runNo, first>>

\* RunResume as it would be if the common detectors were listed in aman's order
RunResume_AmanOrder ==
    /\ pc = "call" /\ given
    /\ LET det_list == SelectSeq(aman.dets, LAMBDA d : InSeq(proc_aman.dets, d))
           differ == Len(aman.dets) # Len(proc_aman.dets) \/ aman.dets # proc_aman.dets
           a == IF differ THEN [aman EXCEPT !.dets = det_list] ELSE aman
           p == IF differ THEN Restrict(proc_aman, det_list) ELSE proc_aman
       IN  /\ aman' = a
           /\ proc_aman' = p
           /\ full' = p
    /\ run_calc' = FALSE
    /\ success' = "end"
    /\ i' = 1
    /\ pc' = LoopHead(1)
    /\ UNCHANGED <<libvars, pipe, wrap_valid, sel, given, aman0, prior, trace, ret, runNo, first>>

\* run, proc_aman given: cut both containers to the common detectors when
\* they differ
RunResume ==
    /\ pc = "call" /\ given
    /\ LET det_list == SelectSeq(proc_aman.dets, LAMBDA d : InSeq(aman.dets, d))
           differ == Len(aman.dets) # Len(proc_aman.dets) \/ aman.dets # proc_aman.dets
           a == IF differ THEN [aman EXCEPT !.dets = det_list] ELSE aman
           p == IF differ THEN Restrict(proc_aman, det_list) ELSE proc_aman
       IN  /\ aman' = a
           /\ proc_aman' = p
           /\ full' = p
    /\ run_calc' = FALSE
    /\ success' = "end"
    /\ i' = 1
    /\ pc' = LoopHead(1)
    /\ UNCHANGED <<libvars, pipe, wrap_valid, sel, given, aman0, prior, trace, ret, runNo, first>>

Process ==
    /\ pc = "process"
    /\ Invoke("process")
    /\ IF BaseRaises(pipe[i], "process")
       THEN pc' = "raised" /\ UNCHANGED aman
       ELSE /\ aman' = ProcessOp(pipe[i], aman)
            /\ pc' = IF run_calc THEN "calc" ELSE AfterCalc
    /\ UNCHANGED <<libvars, pipe, wrap_valid, sel, given, aman0, prior, proc_aman, full, run_calc,
                   success, i, ret, runNo, first>>

\* CalcAndSave as it would be if the projection into full were left out
CalcAndSave_NoUpdate ==
    /\ pc = "calc"
    /\ Invoke("calc_and_save")
    /\ IF BaseRaises(pipe[i], "calc")
       THEN pc' = "raised" /\ UNCHANGED proc_aman
       ELSE /\ proc_aman' = CalcAndSaveOp(pipe[i], i, aman, proc_aman)
            /\ pc' = AfterCalc
    /\ UNCHANGED <<libvars, pipe, wrap_valid, sel, given, aman, aman0, prior, full, run_calc,
                   success, i, ret, runNo, first>>

CalcAndSave ==
    /\ pc = "calc"
    /\ Invoke("calc_and_save")
    /\ IF BaseRaises(pipe[i], "calc")
       THEN pc' = "raised" /\ UNCHANGED proc_aman
       ELSE /\ proc_aman' = CalcAndSaveOp(pipe[i], i, aman, proc_aman)
            /\ pc' = "update"
    /\ UNCHANGED <<libvars, pipe, wrap_valid, sel, given, aman, aman0, prior, full, run_calc,
                   success, i, ret, runNo, first>>

\* the update as it would be if full were built anew from proc_aman each time
UpdateFull_Rebuild ==
    /\ pc = "update"
    /\ Invoke("update_full_aman")
    /\ full' = UpdateFullAman(proc_aman, EmptyAman(full.dets, full.samps), wrap_valid)
    /\ pc' = AfterCalc
    /\ UNCHANGED <<libvars, pipe, wrap_valid, sel, given, aman, aman0, prior, proc_aman, run_calc,
                   success, i, ret, runNo, first>>

UpdateFull ==
    /\ pc = "update"
    /\ Invoke("update_full_aman")
    /\ full' = UpdateFullAman(proc_aman, full, wrap_valid)
    /\ pc' = AfterCalc
    /\ UNCHANGED <<libvars, pipe, wrap_valid, sel, given, aman, aman0, prior, proc_aman, run_calc,
                   success, i, ret, runNo, first>>

Select ==
    /\ pc = "select"
    /\ Invoke("select")
    /\ IF BaseRaises(pipe[i], "select")
       THEN pc' = "raised" /\ UNCHANGED aman
       ELSE /\ aman' = SelectOp(pipe[i], i, aman, proc_aman)
            /\ pc' = "restrict"
    /\ UNCHANGED <<libvars, pipe, wrap_valid, sel, given, aman0, prior, proc_aman, full, run_calc,
                   success, i, ret, runNo, first>>

\* RestrictProc as it would be if full were cut along with proc_aman
RestrictProc_AlsoFull ==
    /\ pc = "restrict"
    /\ Invoke("restrict")
    /\ proc_aman' = Restrict(proc_aman, aman.dets)
    /\ full' = Restrict(full, aman.dets)
    /\ pc' = "check"
    /\ UNCHANGED <<libvars, pipe, wrap_valid, sel, given, aman, aman0, prior, run_calc,
                   success, i, ret, runNo, first>>

\* RestrictProc as it would be if proc_aman were not cut after select
RestrictProc_Skip ==
    /\ pc = "restrict"
    /\ Invoke("restrict")
    /\ pc' = "check"
    /\ UNCHANGED <<libvars, pipe, wrap_valid, sel, given, aman, aman0, prior, proc_aman, full,
                   run_calc, success, i, ret, runNo, first>>

RestrictProc ==
    /\ pc = "restrict"
    /\ Invoke("restrict")
    /\ proc_aman' = Restrict(proc_aman, aman.dets)
    /\ pc' = "check"
    /\ UNCHANGED <<libvars, pipe, wrap_valid, sel, given, aman, aman0, prior, full, run_calc,
                   success, i, ret, runNo, first>>

\* CheckEmpty as it would be without the break
CheckEmpty_NoBreak ==
    /\ pc = "check"
    /\ Invoke("end")
    /\ success' = IF Len(aman.dets) = 0 THEN ModNames[i] ELSE success
    /\ i' = i + 1
    /\ pc' = LoopHead(i + 1)
    /\ UNCHANGED <<libvars, pipe, wrap_valid, sel, given, aman, aman0, prior, proc_aman, full,
                   run_calc, ret, runNo, first>>

\* CheckEmpty as it would be if the break left the status at 'end'
CheckEmpty_StatusEnd ==
    /\ pc = "check"
    /\ Invoke("end")
    /\ IF Len(aman.dets) = 0
       THEN success' = success /\ i' = i /\ pc' = "return"
       ELSE success' = success /\ i' = i + 1 /\ pc' = LoopHead(i + 1)
    /\ UNCHANGED <<libvars, pipe, wrap_valid, sel, given, aman, aman0, prior, proc_aman, full,
                   run_calc, ret, runNo, first>>

\* the test that ends an iteration of the loop
CheckEmpty ==
    /\ pc = "check"
    /\ Invoke("end")
    /\ IF Len(aman.dets) = 0
       THEN success' = ModNames[i] /\ i' = i /\ pc' = "return"
       ELSE success' = success /\ i' = i + 1 /\ pc' = LoopHead(i + 1)
    /\ UNCHANGED <<libvars, pipe, wrap_valid, sel, given, aman, aman0, prior, proc_aman, full,
                   run_calc, ret, runNo, first>>

\* the return as it would be if run gave back proc_aman, as its docstring says
Return_ProcAman ==
    /\ pc = "return"
    /\ ret' = [returned |-> TRUE, full |-> proc_aman, success |-> success]
    /\ pc' = "done"
    /\ UNCHANGED <<libvars, pipe, wrap_valid, sel, given, aman, aman0, prior, proc_aman, full,
                   run_calc, success, i, trace, runNo, first>>

Return ==
    /\ pc = "return"
    /\ ret' = [returned |-> TRUE, full |-> full, success |-> success]
    /\ pc' = "done"
    /\ UNCHANGED <<libvars, pipe, wrap_valid, sel, given, aman, aman0, prior, proc_aman, full,
                   run_calc, success, i, trace, runNo, first>>

\* the caller loads the TOD again and calls run with the accumulator the
\* fresh run returned
Rerun ==
    /\ pc = "done" /\ runNo = 1 /\ ~given
    /\ first' = [dets |-> aman.dets, success |-> ret.success]
    /\ runNo' = 2
    /\ given' = TRUE
    /\ aman' = aman0
    /\ proc_aman' = ret.full
    /\ prior' = ret.full
    /\ full' = Nothing
    /\ run_calc' = FALSE
    /\ success' = ""
    /\ i' = 0
    /\ trace' = <<>>
    /\ pc' = "call"
    /\ UNCHANGED <<libvars, pipe, wrap_valid, sel, aman0, ret>>

Next ==
    \/ RunFresh
    \/ RunResume
    \/ Process
    \/ CalcAndSave
    \/ UpdateFull
    \/ Select
    \/ RestrictProc
    \/ CheckEmpty
    \/ Return
    \/ Rerun

Spec == Init /\ [][Next]_vars

\* ------------------------------------------------------------------ claims
HasEvent(j, op) == \E p \in 1..Len(trace) : trace[p].mod = j /\ trace[p].op = op

\* the events of one iteration of the loop, in the order the claims give
RunBlock ==
    <<"process">>
    \o (IF given THEN <<>> ELSE <<"calc_and_save", "update_full_aman">>)
    \o (IF sel THEN <<"select", "restrict">> ELSE <<>>)
    \o <<"end">>

\* C1: once an iteration of the loop has ended with aman holding zero
\* detectors, that is the last event of the run (no operation of a later
\* module is invoked), the run is returning, and the status it returns is the
\* name of the module of that iteration.
C1_HaltOnEmpty ==
    \A p \in 1..Len(trace) :
        (trace[p].op = "end" /\ trace[p].ndets = 0) =>
            /\ p = Len(trace)
            /\ pc \in {"return", "done"}
            /\ success = ModNames[trace[p].mod]
            /\ (pc = "done" => ret.success = ModNames[trace[p].mod])

\* a run that returned after a module that is not the last emptied aman
C1_Witness ==
    /\ pc = "done"
    /\ Len(trace) > 0
    /\ trace[Len(trace)].op = "end"
    /\ trace[Len(trace)].ndets = 0
    /\ trace[Len(trace)].mod < Len(pipe)
    /\ ret.success = ModNames[trace[Len(trace)].mod]

\* C2: the events of a run are, module after module in list order, process,
\* then (fresh run) calc_and_save and update_full_aman, then (selection on)
\* select and the restriction of proc_aman, then the end of the iteration:
\* the p-th event is the one this order gives, so no step of a module starts
\* before the preceding module's steps are over and no module is skipped.
C2_Order ==
    /\ \A p \in 1..Len(trace) :
        /\ trace[p].mod = ((p - 1) \div Len(RunBlock)) + 1
        /\ trace[p].op = RunBlock[((p - 1) % Len(RunBlock)) + 1]
    /\ pc \in {"process", "calc", "update", "select", "restrict", "check"} =>
        i = (Len(trace) \div Len(RunBlock)) + 1

\* a fresh run with selection went through every step of every module of a
\* list of the greatest length
C2_Witness ==
    /\ pc = "done"
    /\ ~given /\ sel
    /\ Len(pipe) = MaxMods
    /\ Len(trace) = MaxMods * Len(RunBlock)

\* C3: in a run given a proc_aman no calc_and_save and no update_full_aman is
\* ever invoked; and for every module whose iteration ended, calc_and_save
\* and update_full_aman were invoked exactly when the run was given no
\* proc_aman, process was invoked, and select was invoked exactly when
\* selection is on.
C3_CalcIffFresh ==
    /\ given =>
        \A p \in 1..Len(trace) : trace[p].op \notin {"calc_and_save", "update_full_aman"}
    /\ \A p \in 1..Len(trace) :
        trace[p].op = "end" =>
            /\ HasEvent(trace[p].mod, "process")
            /\ HasEvent(trace[p].mod, "calc_and_save") <=> ~given
            /\ HasEvent(trace[p].mod, "update_full_aman") <=> ~given
            /\ HasEvent(trace[p].mod, "select") <=> sel

\* a run given a proc_aman went through a whole list in which a module has
\* the calc key
C3_Witness ==
    /\ pc = "done"
    /\ given /\ sel
    /\ Len(pipe) = MaxMods
    /\ Len(trace) = MaxMods * Len(RunBlock)
    /\ \E j \in 1..Len(pipe) : pipe[j].cls = "sub" /\ "calc" \in pipe[j].keys

\* the run stopped at the test of an iteration that left aman empty
Halted ==
    /\ Len(trace) > 0
    /\ trace[Len(trace)].op = "end"
    /\ trace[Len(trace)].ndets = 0

\* aman held at least one detector at the end of every iteration so far
AllEndsNonEmpty ==
    \A p \in 1..Len(trace) : trace[p].op = "end" => trace[p].ndets > 0

\* every module of the list went through each step of RunBlock exactly once
AllOnce ==
    \A j \in 1..Len(pipe) : \A k \in 1..Len(RunBlock) :
        Cardinality({p \in 1..Len(trace) :
                        trace[p].mod = j /\ trace[p].op = RunBlock[k]}) = 1

C5_FullKeepsAxes ==
    (~given /\ pc # "call") =>
        /\ full.dets = aman0.dets
        /\ full.samps = aman0.samps
        /\ \A n \in DOMAIN full.fields :
            /\ full.fields[n].dets = aman0.dets
            /\ Len(full.fields[n].data) = Len(aman0.dets)
            /\ full.fields[n].samps = aman0.samps
        /\ pc = "done" =>
            /\ ret.full = full
            /\ ret.full.dets = aman0.dets
            /\ ret.full.samps = aman0.samps

\* a fresh run returned an accumulator holding products after selections
\* removed detectors from aman
C5_Witness ==
    /\ pc = "done"
    /\ ~given
    /\ Len(pipe) = MaxMods
    /\ Len(aman.dets) < Len(aman0.dets)
    /\ DOMAIN ret.full.fields # {}
    /\ ret.full.dets = aman0.dets

\* the detector axis the accumulators have when the loop starts
LoopStartDets ==
    IF given
    THEN SelectSeq(prior.dets, LAMBDA d : InSeq(aman0.dets, d))
    ELSE aman0.dets

Saves(j) == pipe[j].cls = "sub" /\ "calc" \in pipe[j].keys

\* detector d is still in aman when module j computes: no selection of an
\* earlier module removed it
Survives(j, d) ==
    \A j2 \in 1..(j - 1) :
        (sel /\ pipe[j2].cls = "sub" /\ "select" \in pipe[j2].keys) => d \notin pipe[j2].noisy

\* C7: when a fresh run returns because the select of module k removed all
\* the detectors aman still had, the returned accumulator holds exactly the
\* products of the modules 1..k that save one, module k included, each over
\* all the detectors aman had at the call (the module's value where the
\* detector was still in aman when the module computed, zero elsewhere), and
\* no product of a module after k.
C7_EarlyStopKeepsProducts ==
    (/\ pc = "done" /\ ~given /\ Halted
     /\ \E p \in 1..Len(trace) :
            /\ trace[p].op = "select"
            /\ trace[p].mod = trace[Len(trace)].mod
            /\ trace[p].ndets > 0)
    => LET k == trace[Len(trace)].mod
       IN  /\ DOMAIN ret.full.fields = {FldNames[j] : j \in {j2 \in 1..k : Saves(j2)}}
           /\ \A j \in 1..k :
                Saves(j) =>
                    LET f == ret.full.fields[FldNames[j]]
                    IN  /\ f.dets = aman0.dets
                        /\ f.data = [q \in 1..Len(aman0.dets) |->
                                        IF Survives(j, aman0.dets[q])
                                        THEN CalcVal(pipe[j], aman0.dets[q])
                                        ELSE 0]

\* a fresh run stopped at a module that saves a product and is followed by
\* another module that would save one
C7_Witness ==
    /\ pc = "done" /\ ~given /\ Halted
    /\ trace[Len(trace)].mod < Len(pipe)
    /\ Saves(trace[Len(trace)].mod)
    /\ Saves(trace[Len(trace)].mod + 1)
    /\ \E p \in 1..Len(trace) :
            /\ trace[p].op = "select"
            /\ trace[p].mod = trace[Len(trace)].mod
            /\ trace[p].ndets > 0
    /\ FldNames[trace[Len(trace)].mod] \in DOMAIN ret.full.fields

\* C8: a run given a proc_aman does not fail at the call; when the given
\* accumulator's detector labels are aman's, in the same order, neither
\* container is changed before the first module; otherwise both are cut to
\* the labels present in both, in the given accumulator's order, each field
\* of the accumulator keeping the values of the labels kept, so that both
\* have the same label sequence before the first module.
C8_Divergence ==
    /\ (pc = "call" /\ given) => ENABLED RunResume
    /\ (given /\ trace = <<>> /\ pc \in {"process", "return"}) =>
        IF prior.dets = aman0.dets
        THEN aman = aman0 /\ proc_aman = prior
        ELSE /\ aman.dets = proc_aman.dets
             /\ SeqSet(aman.dets) = SeqSet(prior.dets) \cap SeqSet(aman0.dets)
             /\ Len(aman.dets) = Cardinality(SeqSet(aman.dets))
             /\ \A p, q \in 1..Len(aman.dets) :
                    p < q => IndexOf(prior.dets, aman.dets[p]) < IndexOf(prior.dets, aman.dets[q])
             /\ DOMAIN proc_aman.fields = DOMAIN prior.fields
             /\ \A n \in DOMAIN proc_aman.fields :
                    /\ proc_aman.fields[n].dets = proc_aman.dets
                    /\ \A q \in 1..Len(proc_aman.dets) :
                        proc_aman.fields[n].data[q] =
                            prior.fields[n].data[IndexOf(prior.dets, proc_aman.dets[q])]

\* run was given an accumulator with aman's detectors in another order and
\* cut both before the first module
C8_Witness ==
    /\ given /\ trace = <<>> /\ pc = "process"
    /\ SeqSet(prior.dets) = SeqSet(aman0.dets)
    /\ prior.dets # aman0.dets
    /\ Len(aman.dets) > 1
    /\ aman.dets = prior.dets
    /\ DOMAIN prior.fields # {}

\* C9: the run that resumes from the accumulator a fresh run returned, on
\* the same TOD and list, does not raise and returns with aman holding the
\* detectors the fresh run ended with.
C9_ResumeConsistent ==
    runNo = 2 =>
        /\ pc # "raised"
        /\ pc = "done" => aman.dets = first.dets

\* the resumed run returned after selections by the saved products removed
\* some detectors, not all
C9_Witness ==
    /\ runNo = 2 /\ pc = "done" /\ sel
    /\ Len(aman.dets) > 0
    /\ Len(aman.dets) < Len(aman0.dets)
    /\ aman.dets = first.dets
    /\ \E j \in 1..Len(pipe) : Saves(j) /\ "select" \in pipe[j].keys /\ pipe[j].noisy # {}

\* out is new made full-size: full's axes, new's value at every detector
\* label new has, zero at the others, and the valid matrix exactly when asked
IsExpansion(out, new, f, wv) ==
    /\ out.dets = f.dets
    /\ out.samps = f.samps
    /\ Len(out.data) = Len(f.dets)
    /\ \A q \in 1..Len(f.dets) :
        out.data[q] = IF InSeq(new.dets, f.dets[q])
                      THEN new.data[IndexOf(new.dets, f.dets[q])]
                      ELSE 0
    /\ out.hasValid = wv
    /\ wv => /\ Len(out.valid) = Len(f.dets)
             /\ \A q \in 1..Len(f.dets) :
                    RangesMask(out.valid[q]) =
                        [t \in 1..f.samps.count |-> InSeq(new.dets, f.dets[q])]

MaxRegs == 2

\* names that module classes carry, and distinct classes carrying a name
ClassNames == {"detrend", "noise"}

Impls == {"A", "B"}

Classes == [name : ClassNames, impl : Impls]

NoClass == [name |-> "-", impl |-> "-"]

\* _Preprocess.register as it would be if a second class of a name replaced
\* the first
RegisterOp_Rebind(registry, c) ==
    [registry |-> [n \in (DOMAIN registry) \cup {c.name} |->
                        IF n = c.name THEN c ELSE registry[n]],
     raised |-> FALSE]

\* _Preprocess.register(process_class) on the dictionary Pipeline.PIPELINE
RegisterOp(registry, c) ==
    IF c.name \notin DOMAIN registry
    THEN [registry |-> [n \in (DOMAIN registry) \cup {c.name} |->
                            IF n = c.name THEN c ELSE registry[n]],
          raised |-> FALSE]
    ELSE [registry |-> registry, raised |-> TRUE]

\* ---------------------------------------------------- Pipeline construction
\* entries of the modules argument: a ready-made instance of a class, a
\* configuration dictionary with a name (or none), or any other value
ItemInst(c) == [kind |-> "inst", name |-> c.name, cls |-> c]

ItemDict(n) == [kind |-> "dict", name |-> n, cls |-> NoClass]

ItemOther == [kind |-> "other", name |-> "-", cls |-> NoClass]

Items ==
    {ItemInst(c) : c \in {c2 \in Classes : c2.impl = "A"}}
    \cup {ItemDict(n) : n \in ClassNames \cup {"none"}}
    \cup {ItemOther}

ItemLists == UNION {[1..k -> Items] : k \in 0..MaxMods}

\* Pipeline._check_item as it would be without its last branch
CheckItem_AcceptOther(registry, item) ==
    IF item.kind = "dict"
    THEN IF item.name = "none" \/ item.name \notin DOMAIN registry
         THEN [ok |-> FALSE, val |-> item]
         ELSE [ok |-> TRUE, val |-> ItemInst(registry[item.name])]
    ELSE [ok |-> TRUE, val |-> item]

\* Pipeline._check_item(item): the element to store, or ValueError
CheckItem(registry, item) ==
    IF item.kind = "inst"
    THEN [ok |-> TRUE, val |-> item]
    ELSE IF item.kind = "dict"
         THEN IF item.name = "none"
              THEN [ok |-> FALSE, val |-> item]
              ELSE IF item.name \notin DOMAIN registry
                   THEN [ok |-> FALSE, val |-> item]
                   ELSE [ok |-> TRUE, val |-> ItemInst(registry[item.name])]
         ELSE [ok |-> FALSE, val |-> item]

NoPipeline == [op |-> "none", made |-> FALSE, items |-> <<>>, err |-> "", arg |-> <<>>]

\* Pipeline(modules): every entry goes through _check_item before the list
\* is built
ConstructOp(registry, modules) ==
    IF \A k \in 1..Len(modules) : CheckItem(registry, modules[k]).ok
    THEN [op |-> "init", made |-> TRUE,
          items |-> [k \in 1..Len(modules) |-> CheckItem(registry, modules[k]).val],
          err |-> "", arg |-> modules]
    ELSE [op |-> "init", made |-> FALSE, items |-> <<>>, err |-> "ValueError",
          arg |-> modules]

InitBuild ==
    /\ RunIdle /\ BcIdle /\ XpIdle /\ MkIdle /\ RsIdle /\ NmIdle
    /\ reg = [registry |-> [n \in {} |-> NoClass], log |-> <<>>]
    /\ pl = NoPipeline

\* a module class is defined and registers itself
Register ==
    /\ Len(reg.log) < MaxRegs
    /\ \E c \in Classes :
        LET r == RegisterOp(reg.registry, c)
        IN  reg' = [registry |-> r.registry,
                    log |-> Append(reg.log, [cls |-> c, raised |-> r.raised])]
    /\ UNCHANGED <<runvars, pl, bc, xp, mk, rs, nm>>

\* a pipeline is built from a list of entries (one pipeline is followed:
\* each construction makes a new object that shares nothing with another)
Construct ==
    /\ pl.op = "none"
    /\ \E modules \in ItemLists : pl' = ConstructOp(reg.registry, modules)
    /\ UNCHANGED <<runvars, reg, bc, xp, mk, rs, nm>>

NextBuild ==
    \/ Register
    \/ Construct

SpecBuild == InitBuild /\ [][NextBuild]_vars

\* C11: the registry holds exactly the names of the classes registered so
\* far, each bound to the first class registered under it; a register call
\* raised exactly when an earlier call had registered the name, and left the
\* registry as it was; building pipelines changes nothing of it.
C11_RegistryAppendOnly ==
    LET log == reg.log
        FirstOf(n) == CHOOSE k \in 1..Len(log) :
                        /\ log[k].cls.name = n
                        /\ \A k2 \in 1..(k - 1) : log[k2].cls.name # n
    IN  /\ DOMAIN reg.registry = {log[k].cls.name : k \in 1..Len(log)}
        /\ \A n \in DOMAIN reg.registry : reg.registry[n] = log[FirstOf(n)].cls
        /\ \A k \in 1..Len(log) :
            log[k].raised <=> \E k2 \in 1..(k - 1) : log[k2].cls.name = log[k].cls.name

\* a second class was registered under a name already bound: the call
\* raised and the first class is still bound
C11_Witness ==
    /\ Len(reg.log) = 2
    /\ reg.log[1].cls.name = reg.log[2].cls.name
    /\ reg.log[1].cls # reg.log[2].cls
    /\ reg.log[2].raised
    /\ reg.registry[reg.log[1].cls.name] = reg.log[1].cls
    /\ pl.made

\* an entry construction accepts, as the claim gives it
Accepted(registry, item) ==
    \/ item.kind = "inst"
    \/ item.kind = "dict" /\ item.name # "none" /\ item.name \in DOMAIN registry

\* C12: a construction leaves the registry as it is; it produces a pipeline
\* exactly when every entry is a module instance or a dictionary whose name
\* is registered, and then the pipeline has one element per entry, in
\* order: the instance itself, or an instance of the class registered under
\* the dictionary's name; otherwise it raises ValueError and no pipeline is
\* produced.
C12_Construction ==
    [][pl' # pl =>
        /\ reg' = reg
        /\ pl'.made <=> \A k \in 1..Len(pl'.arg) : Accepted(reg.registry, pl'.arg[k])
        /\ pl'.made =>
            /\ pl'.err = ""
            /\ Len(pl'.items) = Len(pl'.arg)
            /\ \A k \in 1..Len(pl'.arg) :
                /\ pl'.items[k].kind = "inst"
                /\ pl'.arg[k].kind = "inst" => pl'.items[k] = pl'.arg[k]
                /\ pl'.arg[k].kind = "dict" =>
                    pl'.items[k].cls = reg.registry[pl'.arg[k].name]
        /\ ~pl'.made => pl'.err = "ValueError" /\ pl'.items = <<>>
    ]_vars

\* a pipeline was built from a ready-made instance and a dictionary whose
\* name resolved to a class of another implementation
C12_Witness ==
    /\ pl.made
    /\ Len(pl.items) = MaxMods
    /\ \E k \in 1..Len(pl.arg) : pl.arg[k].kind = "inst"
    /\ \E k \in 1..Len(pl.arg) :
        /\ pl.arg[k].kind = "dict"
        /\ pl.items[k].cls.impl = "B"

\* ===================================================== the base class alone
LifeKeys == {"process", "calc", "save", "select"}

\* what a configuration dictionary holds for a key: nothing, the value None,
\* or a configuration
KeyStates == {"absent", "none", "cfg"}

StepCfgs == [LifeKeys -> KeyStates]

\* step_cfgs.get(key): None for a key that is absent and for a key whose
\* value is None
Get(step_cfgs, key) ==
    IF step_cfgs[key] = "absent" THEN "none" ELSE step_cfgs[key]

\* _Preprocess.__init__(step_cfgs): the four attributes of the instance
NewPreprocess(step_cfgs) ==
    [process_cfgs |-> Get(step_cfgs, "process"),
     calc_cfgs |-> Get(step_cfgs, "calc"),
     save_cfgs |-> Get(step_cfgs, "save"),
     select_cfgs |-> Get(step_cfgs, "select")]

\* the attribute each operation of the base class tests
AttrOf(self, op) ==
    CASE op = "process" -> self.process_cfgs
      [] op = "calc_and_save" -> self.calc_cfgs
      [] op = "save" -> self.save_cfgs
      [] op = "select" -> self.select_cfgs

\* the base class as it would be if every operation tested process_cfgs
BaseCall_OneKey(self, op, meta, proc) ==
    IF self.process_cfgs = "none"
    THEN [raised |-> FALSE, meta |-> meta, proc |-> proc,
          ret |-> IF op = "select" THEN meta ELSE "None"]
    ELSE [raised |-> TRUE, meta |-> meta, proc |-> proc, ret |-> "-"]

\* process, calc_and_save, save and select of _Preprocess: return (select
\* returns meta) when the attribute is None, raise NotImplementedError
\* otherwise; neither container is touched
BaseCall(self, op, meta, proc) ==
    IF AttrOf(self, op) = "none"
    THEN [raised |-> FALSE, meta |-> meta, proc |-> proc,
          ret |-> IF op = "select" THEN meta ELSE "None"]
    ELSE [raised |-> TRUE, meta |-> meta, proc |-> proc, ret |-> "-"]

LifeOps == {"process", "calc_and_save", "save", "select"}

\* configuration key of an operation
KeyOf(op) == IF op = "calc_and_save" THEN "calc" ELSE op

InitBase ==
    /\ RunIdle /\ RegIdle /\ PlIdle /\ XpIdle /\ MkIdle /\ RsIdle /\ NmIdle
    /\ \E c \in StepCfgs :
        bc = [cfg |-> c, self |-> NewPreprocess(c), op |-> "none",
              raised |-> FALSE, meta |-> "aman", proc |-> "proc_aman", ret |-> "-"]

BaseStep(op) ==
    /\ bc.op = "none"
    /\ LET r == BaseCall(bc.self, op, bc.meta, bc.proc)
       IN  bc' = [bc EXCEPT !.op = op, !.raised = r.raised, !.meta = r.meta,
                            !.proc = r.proc, !.ret = r.ret]
    /\ UNCHANGED <<runvars, reg, pl, xp, mk, rs, nm>>

CallProcess == BaseStep("process")

CallCalcAndSave == BaseStep("calc_and_save")

CallSave == BaseStep("save")

CallSelect == BaseStep("select")

NextBase ==
    \/ CallProcess
    \/ CallCalcAndSave
    \/ CallSave
    \/ CallSelect

SpecBase == InitBase /\ [][NextBase]_vars

\* C13 as stated: an operation of the base class is a no-op when its key is
\* absent from the configuration and raises when the key is present.
C13_Original ==
    bc.op # "none" => (bc.raised <=> bc.cfg[KeyOf(bc.op)] # "absent")

\* C13: an operation of the base class returns without touching either
\* container (select returns its input) when its key is absent or holds
\* None, and raises NotImplementedError when the key holds a configuration;
\* the other three keys play no part.
C13_KeyDecides ==
    bc.op # "none" =>
        /\ bc.raised <=> bc.cfg[KeyOf(bc.op)] = "cfg"
        /\ bc.meta = "aman" /\ bc.proc = "proc_aman"
        /\ ~bc.raised => bc.ret = (IF bc.op = "select" THEN "aman" ELSE "None")

\* select returned its input although the other three keys hold
\* configurations, and its own key is present with the value None
C13_Witness ==
    /\ bc.op = "select" /\ ~bc.raised /\ bc.ret = "aman"
    /\ bc.cfg["select"] = "none"
    /\ \A k \in LifeKeys \ {"select"} : bc.cfg[k] = "cfg"

\* ========================================================== _expand alone
\* depths of nesting of the containers handed to _expand
Depths == {0, 1, 2}

\* A container over the given axes carrying every kind of field its axes
\* allow: the dense value of detector d at sample a is 10 * d + a + 1 (never
\* zero), the Ranges field has the mask pat, the RangesMatrix has pat on the
\* odd detectors and its complement on the even ones
RECURSIVE MkNew(_, _, _, _, _)
MkNew(hasDets, dets, samps, pat, depth) ==
    [hasDets |-> hasDets, dets |-> dets, samps |-> samps,
     dense |-> IF hasDets /\ samps.has
               THEN << [r \in 1..Len(dets) |-> [p \in 1..samps.count |->
                            10 * dets[r] + samps.offset + p] ] >>
               ELSE <<>>,
     vec |-> IF hasDets THEN << [r \in 1..Len(dets) |-> dets[r]] >> ELSE <<>>,
     rng |-> IF samps.has THEN << RangesFromMask(pat) >> ELSE <<>>,
     rmat |-> IF hasDets /\ samps.has
              THEN << [r \in 1..Len(dets) |->
                        RangesFromMask([p \in 1..samps.count |->
                            IF dets[r] % 2 = 1 THEN pat[p] ELSE ~pat[p]])] >>
              ELSE <<>>,
     sub |-> IF depth = 0 THEN <<>>
             ELSE << MkNew(hasDets, dets, samps, pat, depth - 1) >>,
     valid |-> <<>>]

\* the full-size container new is sized to
XFull == MkAxes(TRUE, Canonical(NDets), SampsAxis(0, NSamps))

\* sample axes of new: none, or any window around full's samples
XSamps ==
    {NoSamps} \cup {SampsAxis(o, c) : o \in (0 - 1)..NSamps, c \in 0..NSamps}

\* masks of a Ranges field over c samples: none, all, odd and even samples
XPats(c) ==
    {[p \in 1..c |-> b] : b \in BOOLEAN}
    \cup {[p \in 1..c |-> p % 2 = 1], [p \in 1..c |-> p % 2 = 0]}

\* the containers handed to _expand: detector labels in any order, some of
\* them unknown to full, or no detector axis at all
XNews ==
    UNION {{MkNew(TRUE, d, sa, pat, depth) :
                d \in InjSeqs(1..(NDets + 1), NDets), pat \in XPats(sa.count),
                depth \in Depths} : sa \in XSamps}
    \cup {MkNew(FALSE, <<>>, sa, [p \in 1..sa.count |-> p % 2 = 1], depth) :
            sa \in XSamps, depth \in Depths}

\* full with 5 detectors and 100 samples, new over detectors {1, 3} and
\* samples [20, 80)
ExampleFull == MkAxes(TRUE, <<0, 1, 2, 3, 4>>, SampsAxis(0, 100))

ExampleNew == MkNew(TRUE, <<1, 3>>, SampsAxis(20, 60), [p \in 1..60 |-> TRUE], 0)

InitExpand ==
    /\ RunIdle /\ RegIdle /\ PlIdle /\ BcIdle /\ MkIdle /\ RsIdle /\ NmIdle
    /\ \E in \in ({[new |-> n, full |-> XFull] : n \in XNews}
                  \cup {[new |-> ExampleNew, full |-> ExampleFull]}),
          wv \in BOOLEAN :
        xp = [new |-> in.new, full |-> in.full, wrap_valid |-> wv,
              done |-> FALSE, ok |-> FALSE, out |-> MkAxes(FALSE, <<>>, NoSamps)]

\* one call of _expand(new, full, wrap_valid)
ExpandCall ==
    /\ ~xp.done
    /\ LET r == ExpandNested(xp.new, xp.full, xp.wrap_valid)
       IN  xp' = [xp EXCEPT !.done = TRUE, !.ok = r.ok, !.out = r.val]
    /\ UNCHANGED <<runvars, reg, pl, bc, mk, rs, nm>>

NextExpand == ExpandCall

SpecExpand == InitExpand /\ [][NextExpand]_vars

\* sample a of the data lies on the sample axis sa
OnSamps(sa, a) == sa.offset <= a /\ a < sa.offset + sa.count

\* the valid matrix of out, when there is one, is true at (d, s) exactly
\* when d is a detector of n too and s a sample of n too (any sample when n
\* has no sample axis); the same for the containers nested in out
RECURSIVE ValidRight(_, _, _)
ValidRight(n, f, out) ==
    /\ out.valid # <<>> =>
        /\ Len(out.valid[1]) = Len(f.dets)
        /\ \A r \in 1..Len(f.dets) :
            /\ out.valid[1][r].count = f.samps.count
            /\ \A p \in 1..f.samps.count :
                RangesMask(out.valid[1][r])[p] <=>
                    /\ InSeq(n.dets, f.dets[r])
                    /\ n.samps.has => OnSamps(n.samps, f.samps.offset + p - 1)
    /\ n.sub # <<>> => ValidRight(n.sub[1], f, out.sub[1])

\* C14: the valid field _expand attaches is a mask over all detectors and
\* samples of full, true exactly on (detector intersection) x (sample
\* intersection), all samples when new has no sample axis; for full of 5
\* detectors and 100 samples and new over detectors {1, 3} and samples
\* [20, 80) it is true exactly on detectors 1 and 3 over [20, 80).
C14_ValidMask ==
    xp.done /\ xp.ok =>
        /\ ValidRight(xp.new, xp.full, xp.out)
        /\ xp.wrap_valid /\ xp.full = ExampleFull =>
            \A r \in 1..5, p \in 1..100 :
                RangesMask(xp.out.valid[1][r])[p] <=>
                    (xp.full.dets[r] \in {1, 3} /\ 20 <= p - 1 /\ p - 1 < 80)

\* valid was attached for a new that has one of full's detectors in a row
\* and covers only part of the samples: one row of valid is partly true,
\* another all false
C14_Witness ==
    /\ xp.done /\ xp.ok /\ xp.full = XFull /\ xp.out.valid # <<>>
    /\ xp.new.samps.has
    /\ \E r \in 1..NDets :
        /\ \E p \in 1..NSamps : RangesMask(xp.out.valid[1][r])[p]
        /\ \E p \in 1..NSamps : ~RangesMask(xp.out.valid[1][r])[p]
    /\ \E r \in 1..NDets : xp.out.valid[1][r].ivs = <<>>

\* no container of c, at any depth, carries a valid field
RECURSIVE NoValid(_)
NoValid(c) == c.valid = <<>> /\ (c.sub # <<>> => NoValid(c.sub[1]))

\* C15: when _expand is run with wrap_valid false, no container of the
\* result, at the top level or nested at any depth, has a valid field.
C15_NoValidUnlessAsked ==
    xp.done /\ xp.ok /\ ~xp.wrap_valid => NoValid(xp.out)

\* every field of n has, in out, n's value at every detector label and
\* sample; the same for the containers nested in n
RECURSIVE SameValues(_, _)
SameValues(n, out) ==
    LET row(r) == IndexOf(n.dets, out.dets[r])
    IN  /\ n.dense # <<>> =>
            /\ out.dense # <<>>
            /\ \A r \in 1..Len(out.dets), p \in 1..out.samps.count :
                out.dense[1][r][p] = n.dense[1][row(r)][p]
        /\ n.vec # <<>> =>
            /\ out.vec # <<>>
            /\ \A r \in 1..Len(out.dets) : out.vec[1][r] = n.vec[1][row(r)]
        /\ n.rng # <<>> =>
            /\ out.rng # <<>>
            /\ RangesMask(out.rng[1]) = RangesMask(n.rng[1])
        /\ n.rmat # <<>> =>
            /\ out.rmat # <<>>
            /\ \A r \in 1..Len(out.dets) :
                RangesMask(out.rmat[1][r]) = RangesMask(n.rmat[1][row(r)])
        /\ n.sub # <<>> => out.sub # <<>> /\ SameValues(n.sub[1], out.sub[1])

\* new's detector axis and sample axis carry exactly full's labels
SameAxes(n, f) ==
    /\ n.hasDets /\ SeqSet(n.dets) = SeqSet(f.dets) /\ Len(n.dets) = Len(f.dets)
    /\ n.samps = f.samps

\* C16: when new's detector and sample axes carry exactly the labels of
\* full's, _expand(new, full) gives a container in which every dense, Ranges
\* and RangesMatrix field of new has, at every label, the value it has in
\* new.
C16_AlignmentIdentity ==
    xp.done /\ SameAxes(xp.new, xp.full) => xp.ok /\ SameValues(xp.new, xp.out)

\* new lists full's detectors in another order, has full's samples, a
\* RangesMatrix whose rows differ and a nested container
C16_Witness ==
    /\ xp.done /\ xp.ok /\ SameAxes(xp.new, xp.full)
    /\ xp.new.dets # xp.full.dets
    /\ xp.new.sub # <<>>
    /\ \E r \in 1..Len(xp.full.dets) :
        /\ xp.out.rmat[1][r].ivs # <<>>
        /\ xp.out.rmat[1][r] # xp.out.rmat[1][1]

\* every field of out is shaped to f and holds, at each (detector, sample)
\* of f, n's value for the same labels when n has them, and the zero of its
\* kind otherwise; the same for the containers nested in n
RECURSIVE ZeroFilled(_, _, _)
ZeroFilled(n, f, out) ==
    LET nd == Len(f.dets)
        ns == f.samps.count
        inD(r) == n.hasDets /\ InSeq(n.dets, f.dets[r])
        inS(p) == n.samps.has /\ OnSamps(n.samps, f.samps.offset + p - 1)
        row(r) == IndexOf(n.dets, f.dets[r])
        col(p) == f.samps.offset + p - n.samps.offset
    IN  /\ out.dets = f.dets /\ out.samps = f.samps
        /\ n.dense # <<>> =>
            /\ out.dense # <<>> /\ Len(out.dense[1]) = nd
            /\ \A r \in 1..nd :
                /\ Len(out.dense[1][r]) = ns
                /\ \A p \in 1..ns :
                    out.dense[1][r][p] =
                        IF inD(r) /\ inS(p) THEN n.dense[1][row(r)][col(p)] ELSE 0
        /\ n.vec # <<>> =>
            /\ out.vec # <<>> /\ Len(out.vec[1]) = nd
            /\ \A r \in 1..nd :
                out.vec[1][r] = IF inD(r) THEN n.vec[1][row(r)] ELSE 0
        /\ n.rng # <<>> =>
            /\ out.rng # <<>> /\ out.rng[1].count = ns
            /\ \A p \in 1..ns :
                RangesMask(out.rng[1])[p] =
                    IF inS(p) THEN RangesMask(n.rng[1])[col(p)] ELSE FALSE
        /\ n.rmat # <<>> =>
            /\ out.rmat # <<>> /\ Len(out.rmat[1]) = nd
            /\ \A r \in 1..nd :
                /\ out.rmat[1][r].count = ns
                /\ \A p \in 1..ns :
                    RangesMask(out.rmat[1][r])[p] =
                        IF inD(r) /\ inS(p)
                        THEN RangesMask(n.rmat[1][row(r)])[col(p)] ELSE FALSE
        /\ n.sub # <<>> => out.sub # <<>> /\ ZeroFilled(n.sub[1], f, out.sub[1])

\* C17: in _expand(new, full) every field of the result is shaped to full;
\* a position whose detector or sample is outside the intersection of new's
\* and full's labels holds zero (false for Ranges and RangesMatrix), a
\* position inside holds new's value for the same labels; with an empty
\* intersection the whole field is zero.
C17_ZeroFill ==
    xp.done /\ xp.ok => ZeroFilled(xp.new, xp.full, xp.out)

\* new shares one detector and part of the samples with full: its dense
\* field comes out with a copied value, zeros in the same row and a zero
\* row, and its RangesMatrix with a true sample
C17_Witness ==
    /\ xp.done /\ xp.ok /\ xp.full = XFull
    /\ xp.out.dense # <<>> /\ xp.out.rmat # <<>>
    /\ \E r \in 1..NDets :
        /\ \E p \in 1..NSamps : xp.out.dense[1][r][p] # 0
        /\ \E p \in 1..NSamps : xp.out.dense[1][r][p] = 0
        /\ xp.out.rmat[1][r].ivs # <<>>
    /\ \E r \in 1..NDets : \A p \in 1..NSamps : xp.out.dense[1][r][p] = 0

\* ============================================= Ranges.from_mask and mask
\* longest dense mask collapsed into a Ranges
MaxMask == 5

Masks == UNION {[1..k -> BOOLEAN] : k \in 0..MaxMask}

InitMask ==
    /\ RunIdle /\ RegIdle /\ PlIdle /\ BcIdle /\ XpIdle /\ RsIdle /\ NmIdle
    /\ \E m \in Masks :
        mk = [m |-> m, stage |-> "mask", r |-> RangesEmpty(0), back |-> <<>>]

\* r = Ranges.from_mask(m)
FromMask ==
    /\ mk.stage = "mask"
    /\ mk' = [mk EXCEPT !.stage = "ranges", !.r = RangesFromMask(mk.m)]
    /\ UNCHANGED <<runvars, reg, pl, bc, xp, rs, nm>>

\* r.mask()
ToMask ==
    /\ mk.stage = "ranges"
    /\ mk' = [mk EXCEPT !.stage = "back", !.back = RangesMask(mk.r)]
    /\ UNCHANGED <<runvars, reg, pl, bc, xp, rs, nm>>

NextMask ==
    \/ FromMask
    \/ ToMask

SpecMask == InitMask /\ [][NextMask]_vars

\* C18: a Ranges built from a dense boolean mask materializes back to that
\* very mask, whatever its length (0 included) and pattern; its intervals
\* lie within the length, are non-empty, sorted, disjoint and non-adjacent.
C18_MaskRoundTrip ==
    /\ mk.stage = "back" => mk.back = mk.m
    /\ mk.stage # "mask" =>
        /\ mk.r.count = Len(mk.m)
        /\ \A k \in 1..Len(mk.r.ivs) :
            /\ 0 <= mk.r.ivs[k][1]
            /\ mk.r.ivs[k][1] < mk.r.ivs[k][2]
            /\ mk.r.ivs[k][2] <= mk.r.count
            /\ k < Len(mk.r.ivs) => mk.r.ivs[k][2] < mk.r.ivs[k + 1][1]

\* a mask with two runs of true samples, one of them longer than a sample,
\* went to two intervals and back
C18_Witness ==
    /\ mk.stage = "back"
    /\ Len(mk.r.ivs) = 2
    /\ \E k \in 1..2 : mk.r.ivs[k][2] - mk.r.ivs[k][1] >= 2

\* ================================================== restrict, twice over
\* a proc_aman over dets holding one sub-container per name of nms: the
\* value of detector d is 10 * d, its valid row covers the first d samples
RsAman(dets, nms, hasValid) ==
    [dets |-> dets, samps |-> SampsAxis(0, NSamps),
     fields |-> [n \in nms |->
        MkField(dets, NoSamps, [k \in 1..Len(dets) |-> 10 * dets[k]], hasValid,
                IF hasValid
                THEN [k \in 1..Len(dets) |->
                        RangesFromMask([p \in 1..NSamps |-> p <= dets[k]])]
                ELSE <<>>)]]

\* label lists handed to restrict: without repeats, some with a label no
\* container has
RsLabels == InjSeqs(1..(NDets + 1), NDets)

InitRestrict ==
    /\ RunIdle /\ RegIdle /\ PlIdle /\ BcIdle /\ XpIdle /\ MkIdle /\ NmIdle
    /\ \E d \in InjSeqs(Dets, NDets), hv \in BOOLEAN, nms \in {{"noise_out"}, {}} :
        rs = [c0 |-> RsAman(d, nms, hv), c |-> RsAman(d, nms, hv),
              before |-> RsAman(d, nms, hv), tried |-> <<>>, s1 |-> <<>>,
              stage |-> "start"]

\* proc_aman.restrict('dets', labels), first time
RestrictOnce ==
    /\ rs.stage = "start"
    /\ \E labels \in RsLabels :
        LET r == RestrictChecked(rs.c, labels)
        IN  rs' = [rs EXCEPT !.before = rs.c, !.tried = labels, !.s1 = labels,
                             !.c = r.val,
                             !.stage = IF r.ok THEN "once" ELSE "raised"]
    /\ UNCHANGED <<runvars, reg, pl, bc, xp, mk, nm>>

\* proc_aman.restrict('dets', labels) on the container already restricted
RestrictAgain ==
    /\ rs.stage = "once"
    /\ \E labels \in RsLabels :
        LET r == RestrictChecked(rs.c, labels)
        IN  rs' = [rs EXCEPT !.before = rs.c, !.tried = labels, !.c = r.val,
                             !.stage = IF r.ok THEN "twice" ELSE "raised"]
    /\ UNCHANGED <<runvars, reg, pl, bc, xp, mk, nm>>

NextRestrict ==
    \/ RestrictOnce
    \/ RestrictAgain

SpecRestrict == InitRestrict /\ [][NextRestrict]_vars

\* every field of c holds, for each detector of c, the value and valid row
\* that detector has in c0
KeepsValues(c0, c) ==
    \A n \in DOMAIN c.fields :
        /\ c.fields[n].dets = c.dets
        /\ Len(c.fields[n].data) = Len(c.dets)
        /\ \A k \in 1..Len(c.dets) :
            /\ c.fields[n].data[k] = c0.fields[n].data[IndexOf(c0.dets, c.dets[k])]
            /\ c.fields[n].hasValid =>
                c.fields[n].valid[k] = c0.fields[n].valid[IndexOf(c0.dets, c.dets[k])]

\* C19: a container restricted to S1 and then to S2, a subset of S1, is in
\* the state one restriction to S2 gives: the axis holds S2 as given and
\* every field the rows of those labels; a restriction raises exactly when
\* its labels are not all on the axis, and then changes nothing.
C19_RestrictTwice ==
    /\ rs.stage = "twice" =>
        /\ SeqSet(rs.tried) \subseteq SeqSet(rs.s1)
        /\ rs.c = Restrict(rs.c0, rs.tried)
        /\ rs.c.dets = rs.tried
        /\ DOMAIN rs.c.fields = DOMAIN rs.c0.fields
        /\ KeepsValues(rs.c0, rs.c)
    /\ rs.stage = "raised" =>
        /\ ~(SeqSet(rs.tried) \subseteq SeqSet(rs.before.dets))
        /\ rs.c = rs.before
    /\ rs.stage \in {"once", "twice"} =>
        SeqSet(rs.tried) \subseteq SeqSet(rs.before.dets)

\* a container with a field was restricted to all its detectors in another
\* order and then to the last of them only
C19_Witness ==
    /\ rs.stage = "twice"
    /\ DOMAIN rs.c.fields # {}
    /\ Len(rs.s1) = NDets /\ rs.s1 # rs.c0.dets
    /\ Len(rs.tried) = 1 /\ rs.tried[1] = rs.s1[NDets]
    /\ \A n \in DOMAIN rs.c.fields : rs.c.fields[n].hasValid

\* =============================================== run with select disabled
\* C20: in a run with select disabled no module's select is invoked and no
\* restriction follows any module: aman, proc_aman and full keep, through
\* the whole loop, the detector axis they had when the loop started, which
\* differs from aman's at the call only by the divergence correction of a
\* resumed run.
C20_NoSelectNoRestrict ==
    ~sel /\ pc \notin {"idle", "call"} =>
        /\ \A p \in 1..Len(trace) : trace[p].op \notin {"select", "restrict"}
        /\ aman.dets = LoopStartDets
        /\ proc_aman.dets = LoopStartDets
        /\ full.dets = LoopStartDets
        /\ ~given => aman.dets = aman0.dets
        /\ given /\ prior.dets = aman0.dets => aman.dets = aman0.dets

\* a run with select disabled went through two modules configured to
\* select, on a resumed run whose proc_aman listed other detectors than aman
C20_Witness ==
    /\ ~sel /\ pc = "done" /\ given
    /\ Len(pipe) = MaxMods
    /\ \A j \in 1..Len(pipe) : "select" \in pipe[j].keys
    /\ prior.dets # aman0.dets
    /\ Len(trace) >= MaxMods

\* ===================================================== the list operations
\* Pipeline.append as it would be without _check_item
AppendOp_Raw(registry, p, item) ==
    [p EXCEPT !.op = "append", !.items = Append(p.items, item), !.err = "",
              !.arg = <<item>>]

\* Pipeline.append(item)
AppendOp(registry, p, item) ==
    LET r == CheckItem(registry, item)
    IN  IF r.ok
        THEN [p EXCEPT !.op = "append", !.items = Append(p.items, r.val),
                       !.err = "", !.arg = <<item>>]
        ELSE [p EXCEPT !.op = "append", !.err = "ValueError", !.arg = <<item>>]

\* Pipeline.insert(index, item), index counted from 0
InsertOp(registry, p, index, item) ==
    LET r == CheckItem(registry, item)
    IN  IF r.ok
        THEN [p EXCEPT !.op = "insert",
                       !.items = SubSeq(p.items, 1, index) \o <<r.val>>
                                 \o SubSeq(p.items, index + 1, Len(p.items)),
                       !.err = "", !.arg = <<item>>]
        ELSE [p EXCEPT !.op = "insert", !.err = "ValueError", !.arg = <<item>>]

\* Pipeline.__setitem__(index, item), index counted from 0: the item is
\* checked first, then list.__setitem__ raises IndexError past the end
SetItemOp(registry, p, index, item) ==
    LET r == CheckItem(registry, item)
    IN  IF ~r.ok
        THEN [p EXCEPT !.op = "setitem", !.err = "ValueError", !.arg = <<item>>]
        ELSE IF index >= Len(p.items)
             THEN [p EXCEPT !.op = "setitem", !.err = "IndexError", !.arg = <<item>>]
             ELSE [p EXCEPT !.op = "setitem", !.items[index + 1] = r.val,
                            !.err = "", !.arg = <<item>>]

\* Pipeline.extend(index, other): the elements of another Pipeline are taken
\* as they are, those of any other iterable go through _check_item, all of
\* them before the list grows; called the way list.extend is, with other
\* alone, it raises TypeError
ExtendOp(registry, p, nargs, isPipeline, other) ==
    IF nargs = 1
    THEN [p EXCEPT !.op = "extend", !.err = "TypeError", !.arg = other]
    ELSE IF isPipeline
         THEN [p EXCEPT !.op = "extend", !.items = p.items \o other,
                        !.err = "", !.arg = other]
         ELSE IF \A k \in 1..Len(other) : CheckItem(registry, other[k]).ok
              THEN [p EXCEPT !.op = "extend",
                             !.items = p.items \o
                                [k \in 1..Len(other) |-> CheckItem(registry, other[k]).val],
                             !.err = "", !.arg = other]
              ELSE [p EXCEPT !.op = "extend", !.err = "ValueError", !.arg = other]

\* entries handed to the list operations: a ready-made instance, a
\* dictionary with a name, a dictionary without one, any other value
ListItems ==
    {ItemInst([name |-> "detrend", impl |-> "A"]), ItemDict("noise"),
     ItemDict("none"), ItemOther}

\* iterables handed to extend
ListOthers == UNION {[1..k -> ListItems] : k \in 0..2}

\* the contents another Pipeline handed to extend can have
ListPipelines ==
    UNION {[1..k -> {ItemInst(c) : c \in {c2 \in Classes : c2.name = "noise"}}] :
            k \in 0..2}

\* the registries a sequence of register calls can leave, each with the
\* calls that made it
Registries ==
    {r \in UNION {[S -> Classes] : S \in SUBSET ClassNames} :
        \A n \in DOMAIN r : r[n].name = n}

LogOf(r) ==
    LET names == SelectSeq(ModNames, LAMBDA n : n \in DOMAIN r)
    IN  [k \in 1..Len(names) |-> [cls |-> r[names[k]], raised |-> FALSE]]

InitList ==
    /\ RunIdle /\ BcIdle /\ XpIdle /\ MkIdle /\ RsIdle /\ NmIdle
    /\ \E r \in Registries : reg = [registry |-> r, log |-> LogOf(r)]
    /\ pl = NoPipeline

ListAppend ==
    /\ pl.made /\ Len(pl.items) < MaxMods
    /\ \E item \in ListItems : pl' = AppendOp(reg.registry, pl, item)
    /\ UNCHANGED <<runvars, reg, bc, xp, mk, rs, nm>>

ListInsert ==
    /\ pl.made /\ Len(pl.items) < MaxMods
    /\ \E item \in ListItems, index \in 0..Len(pl.items) :
        pl' = InsertOp(reg.registry, pl, index, item)
    /\ UNCHANGED <<runvars, reg, bc, xp, mk, rs, nm>>

ListSetItem ==
    /\ pl.made
    /\ \E item \in ListItems, index \in 0..Len(pl.items) :
        pl' = SetItemOp(reg.registry, pl, index, item)
    /\ UNCHANGED <<runvars, reg, bc, xp, mk, rs, nm>>

ListExtend ==
    /\ pl.made
    /\ \E nargs \in {1, 2}, isPipeline \in BOOLEAN :
        \E other \in (IF isPipeline THEN ListPipelines ELSE ListOthers) :
            /\ Len(pl.items) + Len(other) <= MaxMods
            /\ pl' = ExtendOp(reg.registry, pl, nargs, isPipeline, other)
    /\ UNCHANGED <<runvars, reg, bc, xp, mk, rs, nm>>

NextList ==
    \/ Construct
    \/ ListAppend
    \/ ListInsert
    \/ ListSetItem
    \/ ListExtend

SpecList == InitList /\ [][NextList]_vars

\* C21: whatever construction, append, insert, extend and item assignment
\* have been done, every element of the pipeline is a module instance; an
\* operation given an entry that is neither an instance nor a dictionary
\* with a registered name raises and leaves the contents as they were.
C21_OnlyModules ==
    [][/\ pl'.made => \A k \in 1..Len(pl'.items) : pl'.items[k].kind = "inst"
       /\ pl.made /\ pl' # pl =>
            /\ pl'.made
            /\ (\E k \in 1..Len(pl'.arg) : ~Accepted(reg.registry, pl'.arg[k]))
                    => pl'.err # ""
            /\ pl'.err # "" => pl'.items = pl.items
    ]_vars

\* an extend with an unacceptable entry raised on a pipeline that holds an
\* element made from a dictionary
C21_Witness ==
    /\ pl.made /\ pl.op = "extend" /\ pl.err = "ValueError"
    /\ \E k \in 1..Len(pl.arg) : ~Accepted(reg.registry, pl.arg[k])
    /\ \E k \in 1..Len(pl.items) : pl.items[k].cls.impl = "B"

\* ============================================ the accumulators on a fresh run
\* C22: on a fresh run, once update_full_aman has run for a module, every
\* top-level field of proc_aman is a top-level field of full, and full only
\* grows: a field it holds stays, with the same value, through every later
\* step of the run.
C22_FullOnlyGrows ==
    /\ [](~given /\ pc # "update" =>
            (DOMAIN proc_aman.fields) \subseteq (DOMAIN full.fields))
    /\ [][~given' =>
            \A n \in DOMAIN full.fields :
                n \in DOMAIN full'.fields /\ full'.fields[n] = full.fields[n]]_vars

\* a fresh run ended after two modules saved a product each and a
\* selection had cut detectors in between
C22_Witness ==
    /\ ~given /\ pc = "done"
    /\ Cardinality(DOMAIN full.fields) = MaxMods
    /\ DOMAIN proc_aman.fields = DOMAIN full.fields
    /\ Len(proc_aman.dets) < Len(full.dets)
    /\ \E n \in DOMAIN full.fields :
        Len(full.fields[n].dets) > Len(proc_aman.fields[n].dets)

Telescopes == {"LAT", "SAT", "XAT"}

\* The configuration handed to get_nominal: the value of its telescope key
\* (or "absent"), the value of the telescope key of a coord_transform entry
\* of its own ("absent" when it has no such entry, as the transformation
\* configuration config["coord_transform"] has none), whether it holds the
\* keys zemax_path, rot and tube, and whether the table at config_path has
\* parameters for its telescope and slot.
NominalConfigs ==
    [telescope : Telescopes \cup {"absent"}, nested : Telescopes \cup {"absent"},
     latKeys : BOOLEAN, parsOk : BOOLEAN]

Outcome(res, err) == [res |-> res, err |-> err]

\* fpc.get_ufm_to_fp_pars(config["telescope"], config["slot"],
\* config["config_path"])
GetParsOp(cfg) ==
    IF cfg.telescope = "absent" \/ ~cfg.parsOk
    THEN Outcome("none", "KeyError")
    ELSE Outcome("pars", "")

\* the if / elif / else of get_nominal: the first test reads
\* config["telescope"], the second config["coord_transform"]["telescope"]
DispatchOp(cfg) ==
    IF cfg.telescope = "LAT"
    THEN IF cfg.latKeys THEN Outcome("LAT_focal_plane", "")
         ELSE Outcome("none", "KeyError")
    ELSE IF cfg.nested = "absent"
         THEN Outcome("none", "KeyError")
         ELSE IF cfg.nested = "SAT"
              THEN Outcome("SAT_focal_plane", "")
              ELSE Outcome("none", "ValueError")

InitNominal ==
    /\ RunIdle /\ RegIdle /\ PlIdle /\ BcIdle /\ XpIdle /\ MkIdle /\ RsIdle
    /\ \E cfg \in NominalConfigs :
        nm = [config |-> cfg, pc |-> "call", res |-> "none", err |-> ""]

GetPars ==
    /\ nm.pc = "call"
    /\ LET r == GetParsOp(nm.config)
       IN  nm' = [nm EXCEPT !.pc = IF r.err = "" THEN "pars" ELSE "raised",
                            !.err = r.err]
    /\ UNCHANGED <<runvars, reg, pl, bc, xp, mk, rs>>

UfmToFp ==
    /\ nm.pc = "pars"
    /\ nm' = [nm EXCEPT !.pc = "dispatch"]
    /\ UNCHANGED <<runvars, reg, pl, bc, xp, mk, rs>>

Dispatch ==
    /\ nm.pc = "dispatch"
    /\ LET r == DispatchOp(nm.config)
       IN  nm' = [nm EXCEPT !.pc = IF r.err = "" THEN "return" ELSE "raised",
                            !.res = r.res, !.err = r.err]
    /\ UNCHANGED <<runvars, reg, pl, bc, xp, mk, rs>>

ReturnNominal ==
    /\ nm.pc = "return"
    /\ nm' = [nm EXCEPT !.pc = "done"]
    /\ UNCHANGED <<runvars, reg, pl, bc, xp, mk, rs>>

NextNominal ==
    \/ GetPars
    \/ UfmToFp
    \/ Dispatch
    \/ ReturnNominal

SpecNominal == InitNominal /\ [][NextNominal]_vars

\* C24: get_nominal, handed the transformation configuration (which has no
\* coord_transform entry of its own) with parameters for its telescope and
\* the keys the LAT needs, returns the LAT focal plane for telescope 'LAT',
\* the SAT focal plane for 'SAT', and raises ValueError 'Invalid telescope
\* provided' for any other telescope.
C24_Dispatch ==
    /\ nm.pc \in {"done", "raised"}
    /\ nm.config.nested = "absent" /\ nm.config.parsOk /\ nm.config.latKeys
    /\ nm.config.telescope # "absent"
    => CASE nm.config.telescope = "LAT" ->
                nm.pc = "done" /\ nm.res = "LAT_focal_plane"
         [] nm.config.telescope = "SAT" ->
                nm.pc = "done" /\ nm.res = "SAT_focal_plane"
         [] OTHER -> nm.pc = "raised" /\ nm.err = "ValueError"

====
